---- MODULE Spec2Model ----
(***************************************************************************)
(* Objective-C type encodings: static encodings (Primitive, Pointer,       *)
(* Struct), string-parsed encodings (StrEncoding), the Descriptor exchange *)
(* view and the eq_encoding equivalence between any two of them.           *)
(*                                                                         *)
(* Strings are sequences of one-character strings, indexed from 1 by TLA+  *)
(* and from 0 by the scanner (pos).                                        *)
(***************************************************************************)
EXTENDS Integers, Sequences, FiniteSets, TLC

VARIABLES
    pc,      \* position of the caller: which call comes next
    lhs,     \* the first encoding constructed
    rhs,     \* the second encoding constructed
    lhsVia,  \* the constructor that made lhs
    fwd,     \* what lhs.eq_encoding(&rhs) returned
    bwd,     \* what rhs.eq_encoding(&lhs) returned
    work,    \* Display: what is still to be written to the formatter
    shown,   \* Display: what has been written to the formatter
    src,     \* the runtime-supplied string lhs was constructed from
    scan,    \* the scanner's state over src
    made,    \* what StrEncoding::new returned
    view,    \* the descriptors taken of lhs and what dispatching on one returned
    exc,     \* exception::catch: the call's locals and the closure's progress
    data     \* NSMutableData: the buffer and the last call made on it

vars == <<pc, lhs, rhs, lhsVia, fwd, bwd, work, shown, src, scan, made, view, exc, data>>

---------------------------------------------------------------------------
(* Bounds *)

\* Static encodings have at most this many nodes (primitives, pointers, structs).
MaxNodes == 3

\* Runtime strings handed to the validating constructor have at most this length.
MaxStrLen == 5

---------------------------------------------------------------------------
(* Primitive catalog *)

Primitives == {"Char", "Int"}

\* The code-table entry a primitive displays as.
PrimitiveCode(p) == CASE p = "Char" -> "c" [] p = "Int" -> "i"

Codes == {PrimitiveCode(p) : p \in Primitives}

PrimitiveOfCode(c) == CHOOSE p \in Primitives : PrimitiveCode(p) = c

\* Struct names used by the static encodings; the second holds a code letter,
\* as "CGPoint" does.
Names == {<<"A">>, <<"A", "i">>}

\* Characters a struct name is made of: anything that is no delimiter.
NameChars == {"A", "c", "i"}

Alphabet == {"c", "i", "A", "^", "{", "}", "="}

---------------------------------------------------------------------------
(* Static encodings: trees *)

Primitive(p) == [tag |-> "Primitive", prim |-> p, name |-> <<>>, kids |-> <<>>]

Pointer_new(e) == [tag |-> "Pointer", prim |-> "", name |-> <<>>, kids |-> <<e>>]

Struct_new(n, fields) == [tag |-> "Struct", prim |-> "", name |-> n, kids |-> fields]

NoTree == [tag |-> "None", prim |-> "", name |-> <<>>, kids |-> <<>>]

RECURSIVE TreesOfSize(_), FieldSeqs(_)
\* The static encodings of exactly n nodes. A struct has at least one field.
TreesOfSize(n) ==
    IF n = 0 THEN {}
    ELSE (IF n = 1 THEN {Primitive(p) : p \in Primitives} ELSE {})
         \cup {Pointer_new(e) : e \in TreesOfSize(n - 1)}
         \cup {Struct_new(nm, fs) : nm \in Names, fs \in FieldSeqs(n - 1) \ {<<>>}}

\* The field tuples whose encodings have m nodes in all.
FieldSeqs(m) ==
    IF m = 0 THEN {<<>>}
    ELSE UNION {{<<e>> \o r : e \in TreesOfSize(k), r \in FieldSeqs(m - k)} : k \in 1..m}

Trees == UNION {TreesOfSize(n) : n \in 1..MaxNodes}

RECURSIVE Flatten(_)
Flatten(ss) == IF ss = <<>> THEN <<>> ELSE Head(ss) \o Flatten(Tail(ss))

RECURSIVE Encode(_)
\* The encoding string the runtime's @encode gives a type: the canonical form.
Encode(t) ==
    CASE t.tag = "Primitive" -> <<PrimitiveCode(t.prim)>>
      [] t.tag = "Pointer"   -> <<"^">> \o Encode(t.kids[1])
      [] t.tag = "Struct"    ->
            <<"{">> \o t.name \o <<"=">>
            \o Flatten([i \in 1..Len(t.kids) |-> Encode(t.kids[i])]) \o <<"}">>

\* The strings the runtime supplies for the types above.
RuntimeStrings == {Encode(t) : t \in Trees}

---------------------------------------------------------------------------
(* Encoding values of either representation *)

Static(t) == [rep |-> "static", tree |-> t, str |-> <<>>]

StrEncoding(s) == [rep |-> "str", tree |-> NoTree, str |-> s]

NoEncoding == [rep |-> "none", tree |-> NoTree, str |-> <<>>]

---------------------------------------------------------------------------
(* String-parsed encodings: the scanner over the encoding grammar          *)
(*   encoding ::= code | "^" encoding | "{" name "=" encoding* "}"         *)

\* The scanner before its first read, about to read one encoding at pos p.
\* mode: "enc" an encoding must follow; "field" a field or the closing "}"
\* may follow; "name" inside a struct's name. depth counts the open structs,
\* nlen the characters of the name read so far, rd the index last read.
ScanStart(p) ==
    [pos |-> p, depth |-> 0, mode |-> "enc", nlen |-> 0, status |-> "run", rd |-> -1]

\* After one complete encoding: done at the top level, else the next field.
Completed(st) ==
    IF st.depth = 0 THEN [st EXCEPT !.status = "ok"] ELSE [st EXCEPT !.mode = "field"]

\* The scanner after reading character ch at st.pos.
Consume(st, ch) ==
    LET nx == [st EXCEPT !.pos = @ + 1, !.rd = st.pos]
        bad == [st EXCEPT !.status = "bad", !.rd = st.pos]
    IN  CASE st.mode = "name" ->
                IF ch = "=" THEN (IF st.nlen > 0 THEN [nx EXCEPT !.mode = "field"] ELSE bad)
                ELSE IF ch \in NameChars THEN [nx EXCEPT !.nlen = @ + 1]
                ELSE bad
          [] OTHER ->
                IF ch \in Codes THEN Completed(nx)
                ELSE IF ch = "^" THEN [nx EXCEPT !.mode = "enc"]
                ELSE IF ch = "{" THEN [nx EXCEPT !.mode = "name", !.nlen = 0, !.depth = @ + 1]
                ELSE IF ch = "}" /\ st.mode = "field"
                     THEN Completed([nx EXCEPT !.depth = @ - 1])
                ELSE bad

\* A step that reads whatever lies at pos, also past the end of the string.
ScanStepUnbounded(s, st) ==
    Consume(st, IF st.pos < Len(s) THEN s[st.pos + 1] ELSE "?")

\* One step of the scan: the string's length is a hard boundary.
ScanStep(s, st) ==
    IF st.pos >= Len(s) THEN [st EXCEPT !.status = "eof"]
    ELSE Consume(st, s[st.pos + 1])

RECURSIVE RunScan(_, _)
\* The scan run to its end.
RunScan(s, st) == IF st.status # "run" THEN st ELSE RunScan(s, ScanStep(s, st))

\* A constructor that takes any string holding one encoding at its start.
NewResultPrefix(s, st) == IF st.status = "ok" THEN "Ok" ELSE "Err"

\* What the validating constructor returns once the scan of s ended in st:
\* exactly one well-formed encoding and nothing after it, or an error.
NewResult(s, st) == IF st.status = "ok" /\ st.pos = Len(s) THEN "Ok" ELSE "Err"

\* StrEncoding::new: the result, and on Ok the encoding, which wraps s.
StrEncoding_new(s) ==
    LET r == NewResult(s, RunScan(s, ScanStart(0)))
    IN  [result |-> r, enc |-> IF r = "Ok" THEN StrEncoding(s) ELSE NoEncoding]

\* A constructor that loses a leading pointer sigil.
StrEncoding_new_skipping(s) ==
    StrEncoding(IF Len(s) > 1 /\ s[1] = "^" THEN Tail(s) ELSE s)

\* The unchecked constructor wraps the string as it is.
StrEncoding_new_unchecked(s) == StrEncoding(s)

\* 1-based index of the "=" that ends the name of the struct string s.
RECURSIVE NameEnd(_, _)
NameEnd(s, i) == IF i > Len(s) \/ s[i] = "=" THEN i ELSE NameEnd(s, i + 1)

RECURSIVE FieldsFrom(_, _)
\* The fields of a struct string from 0-based position p up to its "}":
\* each field's extent is found by one scan.
FieldsFrom(s, p) ==
    IF p >= Len(s) \/ s[p + 1] = "}" THEN <<>>
    ELSE LET st == RunScan(s, ScanStart(p))
         IN  IF st.status # "ok" THEN <<>>
             ELSE <<StrEncoding(SubSeq(s, p + 1, st.pos))>> \o FieldsFrom(s, st.pos)

---------------------------------------------------------------------------
(* The capabilities: descriptor, pointee, name, fields *)

Descriptor_Primitive(p) == [tag |-> "Primitive", prim |-> p, ref |-> NoEncoding]

Descriptor_Pointer(e) == [tag |-> "Pointer", prim |-> "", ref |-> e]

Descriptor_Struct(e) == [tag |-> "Struct", prim |-> "", ref |-> e]

\* Encoding::descriptor: the structural view of an encoding.
descriptor(e) ==
    IF e.rep = "static"
    THEN CASE e.tree.tag = "Primitive" -> Descriptor_Primitive(e.tree.prim)
           [] e.tree.tag = "Pointer"   -> Descriptor_Pointer(e)
           [] e.tree.tag = "Struct"    -> Descriptor_Struct(e)
    ELSE CASE e.str[1] \in Codes -> Descriptor_Primitive(PrimitiveOfCode(e.str[1]))
           [] e.str[1] = "^"     -> Descriptor_Pointer(e)
           [] e.str[1] = "{"     -> Descriptor_Struct(e)

\* PointerEncoding::pointee
pointee(e) ==
    IF e.rep = "static" THEN Static(e.tree.kids[1])
    ELSE StrEncoding(SubSeq(e.str, 2, Len(e.str)))

\* StructEncoding::name
name(e) ==
    IF e.rep = "static" THEN e.tree.name
    ELSE SubSeq(e.str, 2, NameEnd(e.str, 1) - 1)

\* The field encodings of a struct, in order.
fields(e) ==
    IF e.rep = "static" THEN [i \in 1..Len(e.tree.kids) |-> Static(e.tree.kids[i])]
    ELSE FieldsFrom(e.str, NameEnd(e.str, 1))

---------------------------------------------------------------------------
(* eq_encoding *)

RECURSIVE eq_encoding(_, _), Descriptor_eq_encoding(_, _), FieldsEq(_, _)

\* Primitive::eq_encoding: the other side's descriptor is the same primitive.
Primitive_eq_encoding(p, other) ==
    LET d == descriptor(other)
    IN  d.tag = "Primitive" /\ d.prim = p

\* eq_encoding of a pointer-capable encoding: the other side is a pointer
\* and the pointees are equal.
Pointer_eq_encoding(p, other) ==
    LET d == descriptor(other)
    IN  d.tag = "Pointer" /\ eq_encoding(pointee(p), pointee(d.ref))

\* The comparator's walk over two field sequences in lock-step: the first
\* mismatch, or one sequence ending before the other, is an inequality.
FieldsEq(fs, gs) ==
    IF fs = <<>> \/ gs = <<>> THEN fs = <<>> /\ gs = <<>>
    ELSE eq_encoding(Head(fs), Head(gs)) /\ FieldsEq(Tail(fs), Tail(gs))

\* StructEncoding::eq_struct: self is driven by the caller's name and fields.
eq_struct(self, n, fs) == name(self) = n /\ FieldsEq(fs, fields(self))

\* eq_encoding of a struct-capable encoding.
Struct_eq_encoding(s, other) ==
    LET d == descriptor(other)
    IN  d.tag = "Struct" /\ eq_struct(d.ref, name(s), fields(s))

\* A dispatch whose Primitive arm answers for the tag alone.
Descriptor_eq_encoding_PrimitiveAny(d, other) ==
    CASE d.tag = "Primitive" -> descriptor(other).tag = "Primitive"
      [] d.tag = "Pointer"   -> Pointer_eq_encoding(d.ref, other)
      [] d.tag = "Struct"    -> Struct_eq_encoding(d.ref, other)

\* A dispatch whose Pointer and Struct arms are exchanged.
Descriptor_eq_encoding_Swapped(d, other) ==
    CASE d.tag = "Primitive" -> Primitive_eq_encoding(d.prim, other)
      [] d.tag = "Pointer"   -> descriptor(other).tag = "Struct"
                                /\ eq_struct(descriptor(other).ref, <<>>, <<>>)
      [] d.tag = "Struct"    -> descriptor(other).tag = "Pointer"

\* A dispatch whose Struct arm compares the names only.
Descriptor_eq_encoding_NameOnly(d, other) ==
    CASE d.tag = "Primitive" -> Primitive_eq_encoding(d.prim, other)
      [] d.tag = "Pointer"   -> Pointer_eq_encoding(d.ref, other)
      [] d.tag = "Struct"    -> descriptor(other).tag = "Struct"
                                /\ name(descriptor(other).ref) = name(d.ref)

\* A dispatch whose Pointer arm looks at the tag alone.
Descriptor_eq_encoding_PointerAny(d, other) ==
    CASE d.tag = "Primitive" -> Primitive_eq_encoding(d.prim, other)
      [] d.tag = "Pointer"   -> descriptor(other).tag = "Pointer"
      [] d.tag = "Struct"    -> Struct_eq_encoding(d.ref, other)

\* A dispatch whose Primitive arm never matches.
Descriptor_eq_encoding_PrimitiveNever(d, other) ==
    CASE d.tag = "Primitive" -> FALSE
      [] d.tag = "Pointer"   -> Pointer_eq_encoding(d.ref, other)
      [] d.tag = "Struct"    -> Struct_eq_encoding(d.ref, other)

\* Descriptor::eq_encoding: dispatch on the tag to the viewed encoding.
Descriptor_eq_encoding(d, other) ==
    CASE d.tag = "Primitive" -> Primitive_eq_encoding(d.prim, other)
      [] d.tag = "Pointer"   -> Pointer_eq_encoding(d.ref, other)
      [] d.tag = "Struct"    -> Struct_eq_encoding(d.ref, other)

\* Encoding::eq_encoding. A static encoding runs its own type's comparison;
\* a string-parsed one takes its descriptor and dispatches on it.
eq_encoding(e, other) ==
    IF e.rep = "str" THEN Descriptor_eq_encoding(descriptor(e), other)
    ELSE CASE e.tree.tag = "Primitive" -> Primitive_eq_encoding(e.tree.prim, other)
           [] e.tree.tag = "Pointer"   -> Pointer_eq_encoding(e, other)
           [] e.tree.tag = "Struct"    -> Struct_eq_encoding(e, other)

---------------------------------------------------------------------------
(* Display of a static encoding: writes to the formatter, one at a time *)

Lit(s) == [lit |-> TRUE, text |-> s, tree |-> NoTree]

Sub(t) == [lit |-> FALSE, text |-> <<>>, tree |-> t]

\* A struct display that writes its fields last to first.
PartsReversed(t) ==
    CASE t.tag = "Primitive" -> <<Lit(<<PrimitiveCode(t.prim)>>)>>
      [] t.tag = "Pointer"   -> <<Lit(<<"^">>), Sub(t.kids[1])>>
      [] t.tag = "Struct"    ->
            <<Lit(<<"{">> \o t.name \o <<"=">>)>>
            \o [i \in 1..Len(t.kids) |-> Sub(t.kids[Len(t.kids) + 1 - i])]
            \o <<Lit(<<"}">>)>>

\* What displaying t writes: its own text and its parts' displays, in order.
Parts(t) ==
    CASE t.tag = "Primitive" -> <<Lit(<<PrimitiveCode(t.prim)>>)>>
      [] t.tag = "Pointer"   -> <<Lit(<<"^">>), Sub(t.kids[1])>>
      [] t.tag = "Struct"    ->
            <<Lit(<<"{">> \o t.name \o <<"=">>)>>
            \o [i \in 1..Len(t.kids) |-> Sub(t.kids[i])]
            \o <<Lit(<<"}">>)>>

\* The next write: the first pending item is written, or opened into its parts.
DisplayStep(w, out) ==
    IF Head(w).lit THEN [work |-> Tail(w), shown |-> out \o Head(w).text]
    ELSE [work |-> Parts(Head(w).tree) \o Tail(w), shown |-> out]

B2S(b) == IF b THEN "true" ELSE "false"

---------------------------------------------------------------------------
(* The caller: constructs two encodings and compares them both ways, or    *)
(* constructs a static encoding and displays it.                           *)

IdleScan == [pos |-> 0, depth |-> 0, mode |-> "enc", nlen |-> 0, status |-> "idle", rd |-> -1]

\* No descriptor taken yet.
NoView ==
    [first |-> [tag |-> "None", prim |-> "", ref |-> NoEncoding],
     second |-> [tag |-> "None", prim |-> "", ref |-> NoEncoding],
     eq |-> "unset"]

\* exception::catch not called.
IdleCatch == [pc |-> "idle"]

\* No NSMutableData made.
IdleData == [op |-> "none"]

Init ==
    /\ pc = "start"
    /\ lhs = NoEncoding /\ rhs = NoEncoding /\ lhsVia = "none"
    /\ fwd = "unset" /\ bwd = "unset"
    /\ work = <<>> /\ shown = <<>>
    /\ src = <<>> /\ scan = IdleScan /\ made = "none"
    /\ view = NoView /\ exc = IdleCatch /\ data = IdleData

\* Primitive / Pointer::new / Struct::new: a static encoding.
MakeStatic(t) ==
    /\ pc \in {"start", "lhs"}
    /\ IF pc = "start"
       THEN lhs' = Static(t) /\ lhsVia' = "static" /\ pc' = "lhs" /\ UNCHANGED rhs
       ELSE rhs' = Static(t) /\ pc' = "both" /\ UNCHANGED <<lhs, lhsVia>>
    /\ UNCHANGED <<fwd, bwd, work, shown, src, scan, made>>
    /\ UNCHANGED <<view, exc, data>>

\* StrEncoding::new on a string of the runtime.
MakeNew(s) ==
    /\ pc \in {"start", "lhs"}
    /\ StrEncoding_new(s).result = "Ok"
    /\ IF pc = "start"
       THEN /\ lhs' = StrEncoding_new(s).enc /\ lhsVia' = "new" /\ src' = s
            /\ pc' = "lhs" /\ UNCHANGED rhs
       ELSE /\ rhs' = StrEncoding_new(s).enc
            /\ pc' = "both" /\ UNCHANGED <<lhs, lhsVia, src>>
    /\ UNCHANGED <<fwd, bwd, work, shown, scan, made>>
    /\ UNCHANGED <<view, exc, data>>

\* StrEncoding::new_unchecked on a string of the runtime.
MakeUnchecked(s) ==
    /\ pc = "start"
    /\ lhs' = StrEncoding_new_unchecked(s) /\ lhsVia' = "new_unchecked" /\ src' = s
    /\ pc' = "lhs"
    /\ UNCHANGED <<rhs, fwd, bwd, work, shown, scan, made>>
    /\ UNCHANGED <<view, exc, data>>

\* lhs.eq_encoding(&rhs)
CallForward ==
    /\ pc = "both"
    /\ fwd' = B2S(eq_encoding(lhs, rhs))
    /\ pc' = "forward"
    /\ UNCHANGED <<lhs, rhs, lhsVia, bwd, work, shown, src, scan, made>>
    /\ UNCHANGED <<view, exc, data>>

\* rhs.eq_encoding(&lhs)
CallBackward ==
    /\ pc = "forward"
    /\ bwd' = B2S(eq_encoding(rhs, lhs))
    /\ pc' = "done"
    /\ UNCHANGED <<lhs, rhs, lhsVia, fwd, work, shown, src, scan, made>>
    /\ UNCHANGED <<view, exc, data>>

\* lhs.to_string() begins: the encoding itself is to be written.
DisplayBegin ==
    /\ pc = "lhs" /\ lhs.rep = "static"
    /\ work' = <<Sub(lhs.tree)>> /\ shown' = <<>>
    /\ pc' = "fmt"
    /\ UNCHANGED <<lhs, rhs, lhsVia, fwd, bwd, src, scan, made>>
    /\ UNCHANGED <<view, exc, data>>

\* One write to the formatter; the string is returned after the last.
DisplayWrite ==
    /\ pc = "fmt"
    /\ LET r == DisplayStep(work, shown)
       IN  /\ work' = r.work /\ shown' = r.shown
           /\ pc' = IF r.work = <<>> THEN "shown" ELSE "fmt"
    /\ UNCHANGED <<lhs, rhs, lhsVia, fwd, bwd, src, scan, made>>
    /\ UNCHANGED <<view, exc, data>>

\* lhs.descriptor(), taken twice, and lhs.descriptor().eq_encoding(&rhs)
CallDescriptor ==
    /\ pc = "done"
    /\ view' = [first  |-> descriptor(lhs),
                second |-> descriptor(lhs),
                eq     |-> B2S(Descriptor_eq_encoding(descriptor(lhs), rhs))]
    /\ pc' = "viewed"
    /\ UNCHANGED <<lhs, rhs, lhsVia, fwd, bwd, work, shown, src, scan, made, exc, data>>

Next ==
    \/ \E t \in Trees : MakeStatic(t)
    \/ \E s \in RuntimeStrings : MakeNew(s)
    \/ \E s \in RuntimeStrings : MakeUnchecked(s)
    \/ CallForward
    \/ CallBackward
    \/ CallDescriptor
    \/ DisplayBegin
    \/ DisplayWrite

Spec == Init /\ [][Next]_vars

---------------------------------------------------------------------------
(* Scans of any string, step by step: StrEncoding::new(src) validates src  *)
(* from its start; an encoding made by new_unchecked(src) is scanned when  *)
(* it is compared, for the extent of the encoding at some position.        *)

\* Every string over the alphabet, up to the length bound.
AllStrings == UNION {[1..n -> Alphabet] : n \in 0..MaxStrLen}

InitScan ==
    /\ pc = "start"
    /\ lhs = NoEncoding /\ rhs = NoEncoding /\ lhsVia = "none"
    /\ fwd = "unset" /\ bwd = "unset"
    /\ work = <<>> /\ shown = <<>>
    /\ src \in AllStrings /\ scan = IdleScan /\ made = "none"
    /\ view = NoView /\ exc = IdleCatch /\ data = IdleData

\* StrEncoding::new(src) is called: the scan starts at the string's start.
NewBegin ==
    /\ pc = "start"
    /\ lhsVia' = "new" /\ scan' = ScanStart(0) /\ pc' = "scan"
    /\ UNCHANGED <<lhs, rhs, fwd, bwd, work, shown, src, made>>
    /\ UNCHANGED <<view, exc, data>>

\* StrEncoding::new_unchecked(src): no scan.
UncheckedReturn ==
    /\ pc = "start"
    /\ lhs' = StrEncoding_new_unchecked(src) /\ lhsVia' = "new_unchecked"
    /\ pc' = "lazy"
    /\ UNCHANGED <<rhs, fwd, bwd, work, shown, src, scan, made>>
    /\ UNCHANGED <<view, exc, data>>

\* A comparison asks the unchecked encoding for the encoding at position p.
LazyScanBegin(p) ==
    /\ pc = "lazy"
    /\ scan' = ScanStart(p) /\ pc' = "scan"
    /\ UNCHANGED <<lhs, rhs, lhsVia, fwd, bwd, work, shown, src, made>>
    /\ UNCHANGED <<view, exc, data>>

\* The scanner takes one step.
ScanAdvance ==
    /\ pc = "scan" /\ scan.status = "run"
    /\ scan' = ScanStep(src, scan)
    /\ UNCHANGED <<pc, lhs, rhs, lhsVia, fwd, bwd, work, shown, src, made>>
    /\ UNCHANGED <<view, exc, data>>

\* The validating scan has ended: new returns Ok with the encoding, or the error.
NewReturn ==
    /\ pc = "scan" /\ scan.status # "run" /\ lhsVia = "new"
    /\ made' = NewResult(src, scan)
    /\ lhs' = IF made' = "Ok" THEN StrEncoding(src) ELSE NoEncoding
    /\ pc' = "returned"
    /\ UNCHANGED <<rhs, lhsVia, fwd, bwd, work, shown, src, scan>>
    /\ UNCHANGED <<view, exc, data>>

NextScan ==
    \/ NewBegin
    \/ UncheckedReturn
    \/ \E p \in 0..Len(src) : LazyScanBegin(p)
    \/ ScanAdvance
    \/ NewReturn

SpecScan == InitScan /\ [][NextScan]_vars

---------------------------------------------------------------------------
(* exception::catch: runs a closure under the Objective-C @try of the      *)
(* exception helper and turns a thrown exception into an Err.              *)

\* The closure does at most this many pieces of work before it returns.
MaxWork == 5

\* Exception objects are the pointers 1..MaxObj; the pointer 0 is nil.
MaxObj == 3

None == [some |-> FALSE, v |-> 0]

Some(x) == [some |-> TRUE, v |-> x]

\* No exception in flight.
NoObj == -1

Ok(x) == [ok |-> TRUE, val |-> x, err |-> None]

Err(e) == [ok |-> FALSE, val |-> 0, err |-> e]

\* Retained::from_raw: None for the null pointer, else the object.
Retained_from_raw(ptr) == IF ptr = 0 THEN None ELSE Some(ptr)

\* A result mapping that takes the helper's 0 for a caught exception.
try_no_ret_result_Inverted(success, exception) ==
    IF success # 0 THEN Ok(0) ELSE Err(Retained_from_raw(exception))

\* try_no_ret: Ok(()) when the helper returned 0, else Err with the exception.
try_no_ret_result(success, exception) ==
    IF success = 0 THEN Ok(0) ELSE Err(Retained_from_raw(exception))

\* catch: result.map(|()| value.unwrap_or_else(|| unreachable!())); panicked
\* tells that the unreachable!() branch ran.
catch_result(result, value) ==
    IF result.ok
    THEN [result |-> Ok(value.v), panicked |-> ~value.some]
    ELSE [result |-> result, panicked |-> FALSE]

\* catch is about to be called; the closure has captured its state (acc).
InitCatch ==
    /\ pc = "catch"
    /\ lhs = NoEncoding /\ rhs = NoEncoding /\ lhsVia = "none"
    /\ fwd = "unset" /\ bwd = "unset"
    /\ work = <<>> /\ shown = <<>>
    /\ src = <<>> /\ scan = IdleScan /\ made = "none"
    /\ view = NoView /\ data = IdleData
    /\ exc = [pc |-> "call", acc |-> 0, value |-> None, closure |-> None,
              inflight |-> NoObj, exception |-> 0, success |-> -1,
              tryres |-> Err(None), result |-> Err(None), panicked |-> FALSE]

encVars == <<pc, lhs, rhs, lhsVia, fwd, bwd, work, shown, src, scan, made, view>>

\* catch wraps the closure, with value = None; try_no_ret puts the wrapper in
\* an Option, nulls the exception pointer and calls the helper's try_catch.
CatchCall ==
    /\ exc.pc = "call"
    /\ exc' = [exc EXCEPT !.pc = "try", !.value = None, !.closure = Some(1),
                          !.exception = 0]
    /\ UNCHANGED <<encVars, data>>

\* try_objc_execute_closure, inside @try: takes the closure out of its Option
\* and calls it.
ExecuteClosure ==
    /\ exc.pc = "try" /\ exc.closure.some
    /\ exc' = [exc EXCEPT !.pc = "closure", !.closure = None]
    /\ UNCHANGED <<encVars, data>>

\* The user's closure does a piece of its work.
ClosureWork ==
    /\ exc.pc = "closure" /\ exc.acc < MaxWork
    /\ exc' = [exc EXCEPT !.acc = @ + 1]
    /\ UNCHANGED <<encVars, data>>

\* The user's closure returns; the wrapper stores the value.
ClosureReturn ==
    /\ exc.pc = "closure"
    /\ exc' = [exc EXCEPT !.pc = "ran", !.value = Some(exc.acc)]
    /\ UNCHANGED <<encVars, data>>

\* The user's closure throws the object o, or nil; nothing is stored.
ClosureThrow(o) ==
    /\ exc.pc = "closure"
    /\ exc' = [exc EXCEPT !.pc = "thrown", !.inflight = o]
    /\ UNCHANGED <<encVars, data>>

\* try_catch: the @try block ended, the helper returns 0.
HelperReturn ==
    /\ exc.pc = "ran"
    /\ exc' = [exc EXCEPT !.pc = "tried", !.success = 0]
    /\ UNCHANGED <<encVars, data>>

\* try_catch: @catch stores the retained exception and the helper returns 1.
HelperCatch ==
    /\ exc.pc = "thrown"
    /\ exc' = [exc EXCEPT !.pc = "tried", !.success = 1, !.exception = exc.inflight]
    /\ UNCHANGED <<encVars, data>>

\* try_no_ret returns.
TryNoRetReturn ==
    /\ exc.pc = "tried"
    /\ exc' = [exc EXCEPT !.pc = "mapped",
                          !.tryres = try_no_ret_result(exc.success, exc.exception)]
    /\ UNCHANGED <<encVars, data>>

\* catch maps the result and returns.
CatchReturn ==
    /\ exc.pc = "mapped"
    /\ LET r == catch_result(exc.tryres, exc.value)
       IN  exc' = [exc EXCEPT !.pc = "returned", !.result = r.result,
                              !.panicked = r.panicked]
    /\ UNCHANGED <<encVars, data>>

NextCatch ==
    \/ CatchCall
    \/ ExecuteClosure
    \/ ClosureWork
    \/ ClosureReturn
    \/ \E o \in 0..MaxObj : ClosureThrow(o)
    \/ HelperReturn
    \/ HelperCatch
    \/ TryNoRetReturn
    \/ CatchReturn

SpecCatch == InitCatch /\ [][NextCatch]_vars

---------------------------------------------------------------------------
(* NSMutableData: a byte buffer, mutated through Foundation's methods *)

\* The buffer holds at most this many bytes.
MaxLen == 3

\* A slice handed to a call holds at most this many bytes.
MaxArg == 2

\* The byte values used: zero and a non-zero one.
ByteValues == {0, 7}

ByteSeqs(n) == UNION {[1..k -> ByteValues] : k \in 0..n}

Min(a, b) == IF a < b THEN a ELSE b

\* -[NSMutableData setLength:]: truncates, or extends with zero bytes.
setLength(buf, n) == [i \in 1..n |-> IF i <= Len(buf) THEN buf[i] ELSE 0]

\* -[NSMutableData appendBytes:length:]
appendBytes(buf, bs, length) == buf \o SubSeq(bs, 1, length)

\* -[NSMutableData replaceBytesInRange:withBytes:length:]: the bytes of the
\* range give way to the new ones and the rest shifts; a range that ends
\* past the buffer is zero-filled first.
replaceBytesInRange(buf, range, bs, length) ==
    LET end    == range.location + range.length
        padded == IF end > Len(buf) THEN setLength(buf, end) ELSE buf
    IN  SubSeq(padded, 1, range.location) \o SubSeq(bs, 1, length)
        \o SubSeq(padded, end + 1, Len(padded))

\* NSRange::from(Range<usize>)
NSRange_from(start, end) == [location |-> start, length |-> end - start]

\* A set_len that only ever grows the buffer.
set_len_GrowOnly(buf, len) == IF len > Len(buf) THEN setLength(buf, len) ELSE buf

\* NSMutableData::set_len
set_len(buf, len) == setLength(buf, len)

\* NSMutableData::extend_from_slice
extend_from_slice(buf, bytes) == appendBytes(buf, bytes, Len(bytes))

\* NSMutableData::push
push(buf, byte) == extend_from_slice(buf, <<byte>>)

\* A replace_range that hands the range's end over as its length.
replace_range_EndAsLength(buf, start, end, bytes) ==
    replaceBytesInRange(buf, [location |-> start, length |-> end], bytes, Len(bytes))

\* NSMutableData::replace_range
replace_range(buf, start, end, bytes) ==
    replaceBytesInRange(buf, NSRange_from(start, end), bytes, Len(bytes))

\* NSMutableData::set_bytes
set_bytes(buf, bytes) == replace_range(buf, 0, Len(buf), bytes)

\* The buffer after a call, with what the call was given and what it found.
Called(op, old, len, start, end, arg, bytes) ==
    [op |-> op, old |-> old, len |-> len, start |-> start, end |-> end,
     arg |-> arg, bytes |-> bytes]

\* NSMutableData::with_bytes(b), or new() for the empty b.
InitData ==
    /\ pc = "data"
    /\ lhs = NoEncoding /\ rhs = NoEncoding /\ lhsVia = "none"
    /\ fwd = "unset" /\ bwd = "unset"
    /\ work = <<>> /\ shown = <<>>
    /\ src = <<>> /\ scan = IdleScan /\ made = "none"
    /\ view = NoView /\ exc = IdleCatch
    /\ \E b \in ByteSeqs(MaxLen) : data = Called("with_bytes", <<>>, 0, 0, 0, b, b)

SetLen(n) ==
    /\ data' = Called("set_len", data.bytes, n, 0, 0, <<>>, set_len(data.bytes, n))
    /\ UNCHANGED <<encVars, exc>>

ExtendFromSlice(bs) ==
    /\ Len(data.bytes) + Len(bs) <= MaxLen
    /\ data' = Called("extend_from_slice", data.bytes, 0, 0, 0, bs,
                      extend_from_slice(data.bytes, bs))
    /\ UNCHANGED <<encVars, exc>>

Push(byte) ==
    /\ Len(data.bytes) + 1 <= MaxLen
    /\ data' = Called("push", data.bytes, 0, 0, 0, <<byte>>, push(data.bytes, byte))
    /\ UNCHANGED <<encVars, exc>>

ReplaceRange(a, b, bs) ==
    /\ a <= b
    /\ Len(replace_range(data.bytes, a, b, bs)) <= MaxLen
    /\ data' = Called("replace_range", data.bytes, 0, a, b, bs,
                      replace_range(data.bytes, a, b, bs))
    /\ UNCHANGED <<encVars, exc>>

SetBytes(bs) ==
    /\ data' = Called("set_bytes", data.bytes, 0, 0, 0, bs, set_bytes(data.bytes, bs))
    /\ UNCHANGED <<encVars, exc>>

NextData ==
    \/ \E n \in 0..MaxLen : SetLen(n)
    \/ \E bs \in ByteSeqs(MaxArg) : ExtendFromSlice(bs)
    \/ \E byte \in ByteValues : Push(byte)
    \/ \E a \in 0..MaxLen, b \in 0..MaxLen, bs \in ByteSeqs(MaxArg) : ReplaceRange(a, b, bs)
    \/ \E bs \in ByteSeqs(MaxArg) : SetBytes(bs)

SpecData == InitData /\ [][NextData]_vars

---------------------------------------------------------------------------
(* The grammar of the runtime's encoding strings, as a set of strings *)

RECURSIVE IsEncoding(_), IsEncodings(_)
\* s is exactly one encoding: a code, "^" and an encoding, or a struct.
IsEncoding(s) ==
    /\ Len(s) >= 1
    /\ \/ Len(s) = 1 /\ s[1] \in Codes
       \/ s[1] = "^" /\ IsEncoding(Tail(s))
       \/ /\ s[1] = "{" /\ s[Len(s)] = "}"
          /\ \E k \in 3..(Len(s) - 1) :
                /\ s[k] = "="
                /\ \A j \in 2..(k - 1) : s[j] \in NameChars
                /\ IsEncodings(SubSeq(s, k + 1, Len(s) - 1))

\* s is a concatenation of zero or more encodings.
IsEncodings(s) ==
    \/ s = <<>>
    \/ \E j \in 1..Len(s) :
          IsEncoding(SubSeq(s, 1, j)) /\ IsEncodings(SubSeq(s, j + 1, Len(s)))

---------------------------------------------------------------------------
(* Claims *)

CGPoint == Struct_new(<<"A">>, <<Primitive("Char"), Primitive("Int")>>)

BothStructs == descriptor(lhs).tag = "Struct" /\ descriptor(rhs).tag = "Struct"

BothPointers == descriptor(lhs).tag = "Pointer" /\ descriptor(rhs).tag = "Pointer"

\* C1: a static encoding and the string-parsed encoding of its encoding string
\* compare equal in both directions, whichever of the two is the receiver.
C1_CrossRepresentationEqual ==
    pc = "done" =>
        /\ (lhs.rep = "static" /\ rhs.rep = "str" /\ rhs.str = Encode(lhs.tree))
              => (fwd = "true" /\ bwd = "true")
        /\ (lhs.rep = "str" /\ rhs.rep = "static" /\ lhs.str = Encode(rhs.tree))
              => (fwd = "true" /\ bwd = "true")

C1_Witness ==
    /\ pc = "done"
    /\ lhs = Static(CGPoint)
    /\ rhs = StrEncoding(<<"{", "A", "=", "c", "i", "}">>)
    /\ fwd = "true" /\ bwd = "true"

\* C2: eq_encoding is symmetric: a.eq_encoding(b) = b.eq_encoding(a) for any two
\* encodings, of the same or of different representations.
C2_Symmetric == pc = "done" => fwd = bwd

C2_Witness ==
    /\ pc = "done"
    /\ lhs.rep = "str" /\ rhs.rep = "static"
    /\ BothPointers
    /\ fwd = "false" /\ bwd = "false"

\* C3: two struct encodings are equal exactly when their names are equal, they
\* have the same number of fields and the fields are pairwise equal in order.
C3_StructEquality ==
    (pc = "done" /\ BothStructs) =>
        LET fs == fields(lhs)
            gs == fields(rhs)
        IN  (fwd = "true") <=>
                /\ name(lhs) = name(rhs)
                /\ Len(fs) = Len(gs)
                /\ \A i \in 1..Len(fs) : eq_encoding(fs[i], gs[i])

C3_Witness ==
    /\ pc = "done" /\ BothStructs
    /\ lhs.rep # rhs.rep
    /\ name(lhs) = name(rhs)
    /\ Len(fields(lhs)) # Len(fields(rhs))
    /\ fwd = "false"

\* C4: a primitive equals another encoding exactly when that encoding's
\* descriptor is the same primitive; a pointer or struct never equals a primitive.
C4_PrimitiveEquality ==
    (pc = "done" /\ descriptor(lhs).tag = "Primitive") =>
        /\ (fwd = "true") <=> (descriptor(rhs) = Descriptor_Primitive(descriptor(lhs).prim))
        /\ descriptor(rhs).tag # "Primitive" => bwd = "false"

C4_Witness ==
    /\ pc = "done"
    /\ lhs = StrEncoding(<<"i">>)
    /\ rhs = Static(Pointer_new(Primitive("Int")))
    /\ fwd = "false" /\ bwd = "false"

\* C5: two pointer encodings are equal exactly when their pointees are equal.
C5_PointerEquality ==
    (pc = "done" /\ BothPointers) =>
        /\ fwd = B2S(eq_encoding(pointee(lhs), pointee(rhs)))
        /\ bwd = B2S(eq_encoding(pointee(rhs), pointee(lhs)))

C5_Witness ==
    /\ pc = "done" /\ BothPointers
    /\ lhs.rep # rhs.rep
    /\ descriptor(pointee(lhs)).tag = "Pointer"
    /\ descriptor(pointee(rhs)).tag = "Pointer"
    /\ fwd = "true"

\* C6: eq_encoding is reflexive: every encoding equals itself.
C6_Reflexive == (pc = "done" /\ lhs = rhs) => (fwd = "true" /\ bwd = "true")

C6_Witness ==
    /\ pc = "done" /\ lhs = rhs
    /\ lhs.rep = "str" /\ descriptor(lhs).tag = "Struct"
    /\ fwd = "true"

\* C7: new(s) returns Ok exactly when s is one well-formed encoding of the
\* grammar and nothing else; for every other string it returns the error.
C7_NewValidates ==
    pc = "returned" =>
        /\ made \in {"Ok", "Err"}
        /\ (made = "Ok") <=> IsEncoding(src)

C7_Witness ==
    /\ pc = "returned" /\ made = "Err"
    /\ scan.status = "ok" /\ scan.pos < Len(src)

C10_DisplayCanonical == pc = "shown" => shown = Encode(lhs.tree)

C10_Witness ==
    /\ pc = "shown"
    /\ lhs = Static(CGPoint)
    /\ shown = <<"{", "A", "=", "c", "i", "}">>

C11_CatchResult ==
    exc.pc = "returned" =>
        /\ exc.result.ok <=> (exc.inflight = NoObj)
        /\ exc.result.ok => exc.result.val = exc.acc
        /\ ~exc.result.ok => exc.result.err = Retained_from_raw(exc.inflight)
        /\ (~exc.result.ok /\ ~exc.result.err.some) <=> (exc.inflight = 0)
        /\ ~exc.panicked

C11_Witness ==
    /\ exc.pc = "returned"
    /\ exc.acc > 0 /\ exc.inflight = 0
    /\ exc.result = Err(None)

\* C12: set_len(n) leaves exactly n bytes: the first min(old length, n) are
\* unchanged and every byte added beyond the old length is zero.
C12_SetLen ==
    data.op = "set_len" =>
        /\ Len(data.bytes) = data.len
        /\ \A i \in 1..Min(Len(data.old), data.len) : data.bytes[i] = data.old[i]
        /\ \A i \in (Len(data.old) + 1)..data.len : data.bytes[i] = 0

C12_Witness ==
    /\ data.op = "set_len"
    /\ Len(data.old) > 0 /\ data.old[Len(data.old)] # 0
    /\ data.len > Len(data.old)
    /\ data.bytes[data.len] = 0

\* C13: replace_range(a..b, bytes) with a <= b <= len splices bytes in place of
\* old[a..b], so the length changes by bytes.len() - (b - a); set_bytes(bytes)
\* leaves exactly bytes.
C13_ReplaceSplices ==
    /\ (data.op = "replace_range" /\ data.start <= data.end /\ data.end <= Len(data.old)) =>
          /\ data.bytes = SubSeq(data.old, 1, data.start) \o data.arg
                          \o SubSeq(data.old, data.end + 1, Len(data.old))
          /\ Len(data.bytes) = Len(data.old) + Len(data.arg) - (data.end - data.start)
    /\ data.op = "set_bytes" => data.bytes = data.arg

C13_Witness ==
    /\ data.op = "replace_range"
    /\ 0 < data.start /\ data.start < data.end /\ data.end < Len(data.old)
    /\ Len(data.arg) # data.end - data.start
    /\ data.old[Len(data.old)] # 0

====
